---- MODULE Spec2Model ----
(***************************************************************************)
(* Model of the caption image generator page (component Home) of txtpng.  *)
(*                                                                         *)
(* A JavaScript string is modelled as the sequence of its UTF-16 code      *)
(* units (natural numbers), so that length, split(''), includes, replace   *)
(* and trim act on the same units as in the browser.                       *)
(***************************************************************************)
EXTENDS Integers, Sequences, FiniteSets, TLC

(***************************************************************************)
(* Code units the program and its parseInt calls test for.                 *)
(***************************************************************************)
Hyphen == 45
Newline == 10
Digit0 == 48
Digit9 == 57
Minus == 45
Plus == 43

\* '창세기 1장' as tested by includes();  '창세기 1장 ' as removed by replace()
HeaderIncludes == <<52285, 49464, 44592, 32, 49, 51109>>
HeaderReplaced == <<52285, 49464, 44592, 32, 49, 51109, 32>>
\* '절'
Suffix == <<51208>>

DelimiterMin == 20
WrapWidth == 25
TextX == 190
TitleY == 200
FillRepeats == 5

(***************************************************************************)
(* String primitives of the JavaScript runtime.                            *)
(***************************************************************************)
\* White space and line terminators removed by String.prototype.trim
IsWhiteSpace(c) ==
    c \in {9, 10, 11, 12, 13, 32, 160, 5760, 8232, 8233, 8239, 8287, 12288, 65279}
        \cup (8192..8202)

RECURSIVE TrimStart(_)
TrimStart(s) ==
    IF s = <<>> THEN <<>>
    ELSE IF IsWhiteSpace(Head(s)) THEN TrimStart(Tail(s)) ELSE s

RECURSIVE TrimEnd(_)
TrimEnd(s) ==
    IF s = <<>> THEN <<>>
    ELSE IF IsWhiteSpace(s[Len(s)]) THEN TrimEnd(SubSeq(s, 1, Len(s) - 1)) ELSE s

Trim(s) == TrimEnd(TrimStart(s))

\* truthiness of s.trim(): a non-empty string
NonBlank(s) == Trim(s) # <<>>

\* does pat occur in s at position p (1-based)?
OccursAt(s, pat, p) ==
    /\ p >= 1
    /\ p + Len(pat) - 1 <= Len(s)
    /\ \A k \in 1..Len(pat) : s[p + k - 1] = pat[k]

\* String.prototype.indexOf, 1-based; 0 when pat does not occur
IndexOf(s, pat) ==
    LET hits == {p \in 1..(Len(s) + 1) : OccursAt(s, pat, p)}
    IN IF hits = {} THEN 0 ELSE CHOOSE p \in hits : \A q \in hits : p <= q

\* String.prototype.includes
Includes(s, pat) == IndexOf(s, pat) # 0

\* String.prototype.replace(pat, '') with a string pattern: the first
\* occurrence only is removed
ReplaceFirstWithEmpty(s, pat) ==
    LET p == IndexOf(s, pat)
    IN IF p = 0 THEN s
       ELSE SubSeq(s, 1, p - 1) \o SubSeq(s, p + Len(pat), Len(s))

(***************************************************************************)
(* processFile, line 97: text.split(/[-]{20,}/).filter(s => s.trim())      *)
(***************************************************************************)
\* the first position from p on that holds no hyphen; 0 when there is none
FirstNonHyphen(s, p) ==
    IF \E q \in p..Len(s) : s[q] # Hyphen
    THEN CHOOSE q \in p..Len(s) :
            s[q] # Hyphen /\ \A r \in p..(q - 1) : s[r] = Hyphen
    ELSE 0

\* number of consecutive hyphens of s starting at position p
RunLength(s, p) ==
    LET stop == FirstNonHyphen(s, p)
    IN IF p > Len(s) THEN 0
       ELSE IF stop = 0 THEN Len(s) + 1 - p ELSE stop - p

\* the quantifier {20,} of the delimiter pattern
IsDelimiterRun(n) == n >= DelimiterMin

\* the text the pattern consumes at p: the quantifier is greedy, so a match
\* takes the whole run of hyphens that starts at p
\* variant: a lazy quantifier, which stops after 20 hyphens
MatchLengthLazy(s, p) ==
    IF IsDelimiterRun(RunLength(s, p)) THEN DelimiterMin ELSE 0
MatchLength(s, p) ==
    IF IsDelimiterRun(RunLength(s, p)) THEN RunLength(s, p) ELSE 0

\* the first position from p on at which the pattern matches; 0 when there
\* is none
NextMatch(s, p) ==
    IF \E q \in p..Len(s) : s[q] = Hyphen /\ MatchLength(s, q) > 0
    THEN CHOOSE q \in p..Len(s) :
            /\ s[q] = Hyphen /\ MatchLength(s, q) > 0
            /\ \A r \in p..(q - 1) : ~(s[r] = Hyphen /\ MatchLength(s, r) > 0)
    ELSE 0

\* String.prototype.split with the pattern: find the next match from p on,
\* close the piece before it and resume after it
RECURSIVE SplitFrom(_, _)
SplitFrom(s, p) ==
    LET q == NextMatch(s, p)
    IN IF q = 0 THEN <<SubSeq(s, p, Len(s))>>
       ELSE <<SubSeq(s, p, q - 1)>> \o SplitFrom(s, q + MatchLength(s, q))

SplitOnDelimiter(s) == SplitFrom(s, 1)

\* variant: the blank pieces are kept
SectionsOfUnfiltered(t) == SplitOnDelimiter(t)
SectionsOf(t) == SelectSeq(SplitOnDelimiter(t), NonBlank)

(***************************************************************************)
(* generateImage, lines 130-147: logical lines and the 25-unit wrapper     *)
(***************************************************************************)
\* the first newline from p on; 0 when there is none
NextNewline(s, p) ==
    IF \E q \in p..Len(s) : s[q] = Newline
    THEN CHOOSE q \in p..Len(s) : s[q] = Newline /\ \A r \in p..(q - 1) : s[r] # Newline
    ELSE 0

\* section.split('\n')
RECURSIVE SplitLinesFrom(_, _)
SplitLinesFrom(s, p) ==
    LET q == NextNewline(s, p)
    IN IF q = 0 THEN <<SubSeq(s, p, Len(s))>>
       ELSE <<SubSeq(s, p, q - 1)>> \o SplitLinesFrom(s, q + 1)

LogicalLines(section) == SelectSeq(SplitLinesFrom(section, 1), NonBlank)

\* variant: the comparison is off by one
ExceedsWidthLoose(testLine) == Len(testLine) > WrapWidth + 1
\* testLine.length > 25
ExceedsWidth(testLine) == Len(testLine) > WrapWidth

\* variant: the remainder of the line is not pushed
FlushLastDropped(out, currentLine) == out
\* if (currentLine) wrappedLines.push(currentLine), after the last character
FlushLast(out, currentLine) ==
    IF currentLine # <<>> THEN Append(out, currentLine) ELSE out

\* with currentLine empty before character p: the first character q at which
\* testLine = currentLine + char exceeds the width; 0 when the line ends first
WrapStop(line, p) ==
    IF \E q \in p..Len(line) : ExceedsWidth(SubSeq(line, p, q))
    THEN CHOOSE q \in p..Len(line) :
            /\ ExceedsWidth(SubSeq(line, p, q))
            /\ \A r \in p..(q - 1) : ~ExceedsWidth(SubSeq(line, p, r))
    ELSE 0

\* words.forEach(char => ...) from character p on, with currentLine empty:
\* currentLine takes the characters p, p+1, ... up to the first character
\* stop at which testLine exceeds the width; there currentLine is pushed and
\* restarts with that character.  After the last character the remainder is
\* pushed.
RECURSIVE WrapFrom(_, _, _)
WrapFrom(line, p, out) ==
    LET stop == WrapStop(line, p)
    IN IF stop = 0 THEN FlushLast(out, SubSeq(line, p, Len(line)))
       ELSE WrapFrom(line, stop, Append(out, SubSeq(line, p, stop - 1)))

\* the wrapped lines one logical line adds (the inner if (line.trim()))
WrapLine(line) == IF NonBlank(line) THEN WrapFrom(line, 1, <<>>) ELSE <<>>

RECURSIVE WrapAll(_)
WrapAll(lines) ==
    IF lines = <<>> THEN <<>> ELSE WrapLine(Head(lines)) \o WrapAll(Tail(lines))

WrappedLinesOf(section) == WrapAll(LogicalLines(section))

(***************************************************************************)
(* generateImage, lines 149-158: title and content lines                   *)
(***************************************************************************)
IsTitleLine(line) == Includes(line, HeaderIncludes) /\ Includes(line, Suffix)

TitleOf(line) ==
    Trim(ReplaceFirstWithEmpty(ReplaceFirstWithEmpty(line, HeaderReplaced), Suffix))

\* variant: a title, once set, is kept
AssignTitleOnce(old, line) == IF old = <<>> THEN TitleOf(line) ELSE old
\* title = ..., line 154: the assignment overwrites the title set before
AssignTitle(old, line) == TitleOf(line)

\* wrappedLines.forEach(line => ...): acc is [title, contentLines]
RECURSIVE ClassifyFrom(_, _, _)
ClassifyFrom(wrapped, p, acc) ==
    IF p > Len(wrapped) THEN acc
    ELSE LET line == wrapped[p]
         IN IF IsTitleLine(line)
            THEN ClassifyFrom(wrapped, p + 1,
                   [acc EXCEPT !.title = AssignTitle(@, line)])
            ELSE IF NonBlank(line)
                 THEN ClassifyFrom(wrapped, p + 1,
                        [acc EXCEPT !.contentLines = Append(@, Trim(line))])
                 ELSE ClassifyFrom(wrapped, p + 1, acc)

\* variant: the first wrapped line is skipped
ClassifySkippingFirst(wrapped) ==
    ClassifyFrom(wrapped, 2, [title |-> <<>>, contentLines |-> <<>>])
Classify(wrapped) == ClassifyFrom(wrapped, 1, [title |-> <<>>, contentLines |-> <<>>])

(***************************************************************************)
(* generateImage, lines 160-198: the calls made on the 2d context.  The    *)
(* encoded image is the list of text draws, each with the font set, the    *)
(* text and the position; font is the pixel size interpolated into         *)
(* ctx.font.                                                               *)
(***************************************************************************)
DrawOp(kind, str, x, y, size) ==
    [op |-> kind, text |-> str, x |-> x, y |-> y, font |-> size]

\* strokeText once, then fillText five times at the same position
OutlinedText(str, x, y, size) ==
    <<DrawOp("strokeText", str, x, y, size)>>
        \o [k \in 1..FillRepeats |-> DrawOp("fillText", str, x, y, size)]

DrawTitle(title, currentSettings) ==
    IF title # <<>>
    THEN OutlinedText(title, TextX, TitleY, currentSettings.numberFontSize)
    ELSE <<>>

\* yPos of content line n (from 0): 200 + numberContentSpacing, then
\* yPos += lineSpacing after every line
\* variant: the line spacing is added before the line is drawn
ContentYAdvanceFirst(n, currentSettings) ==
    TitleY + currentSettings.numberContentSpacing + (n + 1) * currentSettings.lineSpacing
ContentY(n, currentSettings) ==
    TitleY + currentSettings.numberContentSpacing + n * currentSettings.lineSpacing

RECURSIVE DrawContentFrom(_, _, _)
DrawContentFrom(contentLines, p, currentSettings) ==
    IF p > Len(contentLines) THEN <<>>
    ELSE OutlinedText(contentLines[p], TextX, ContentY(p - 1, currentSettings),
                      currentSettings.contentFontSize)
            \o DrawContentFrom(contentLines, p + 1, currentSettings)

Paint(title, contentLines, currentSettings) ==
    DrawTitle(title, currentSettings) \o DrawContentFrom(contentLines, 1, currentSettings)

\* the locals of one generateImage call and the data URL it resolves with
GenerateImage(section, currentSettings) ==
    LET wrapped == WrappedLinesOf(section)
        parts == Classify(wrapped)
    IN [wrappedLines |-> wrapped,
        title |-> parts.title,
        contentLines |-> parts.contentLines,
        image |-> Paint(parts.title, parts.contentLines, currentSettings)]

(***************************************************************************)
(* The settings inputs, lines 294-331                                      *)
(***************************************************************************)
Fields == {"contentFontSize", "numberFontSize", "numberContentSpacing", "lineSpacing"}

\* useState initial value, lines 18-23
InitialSettings ==
    [contentFontSize |-> 62, numberFontSize |-> 41,
     numberContentSpacing |-> 55, lineSpacing |-> 70]

\* the literal after || in each onChange handler
Fallback ==
    [contentFontSize |-> 62, numberFontSize |-> 41,
     numberContentSpacing |-> 55, lineSpacing |-> 70]

IsDigit(c) == c >= Digit0 /\ c <= Digit9

\* value of the longest prefix of digits of s from p on, given the value acc
\* of the digits read so far
RECURSIVE DigitsValue(_, _, _)
DigitsValue(s, p, acc) ==
    IF p > Len(s) \/ ~IsDigit(s[p]) THEN acc
    ELSE DigitsValue(s, p + 1, 10 * acc + (s[p] - Digit0))

\* parseInt(string) with no radix, for strings without a 0x prefix: leading
\* white space is skipped, a sign is read, then decimal digits up to the
\* first other character.  NaN is <<>>, the number n is <<n>>.
ParseInt(str) ==
    LET s == TrimStart(str)
        signed == s # <<>> /\ (s[1] = Minus \/ s[1] = Plus)
        first == IF signed THEN 2 ELSE 1
        sign == IF signed /\ s[1] = Minus THEN -1 ELSE 1
    IN IF first > Len(s) \/ ~IsDigit(s[first]) THEN <<>>
       ELSE <<sign * DigitsValue(s, first, 0)>>

\* parsed || default: NaN and 0 are falsy
OrDefault(parsed, default) ==
    IF parsed = <<>> \/ parsed[1] = 0 THEN default ELSE parsed[1]

(***************************************************************************)
(* Bounds and sample inputs                                                *)
(***************************************************************************)
MaxPieces == 3
MaxEdits == 2

Rep(c, n) == [k \in 1..n |-> c]

\* '창세기 1장 3절' and, without the space before the number, '창세기 1장4절'
VerseHeader == HeaderReplaced \o <<51>> \o Suffix
VerseHeaderNoSpace == HeaderIncludes \o <<52>> \o Suffix

\* building blocks of the uploaded texts: 'a', ' ', a newline, '-', 19 and 20
\* hyphens, 25 times 'b', and the two verse headers
Pieces ==
    {<<97>>, <<32>>, <<Newline>>, <<Hyphen>>,
     Rep(Hyphen, DelimiterMin - 1), Rep(Hyphen, DelimiterMin),
     Rep(98, WrapWidth), VerseHeader, VerseHeaderNoSpace}

RECURSIVE TextsUpTo(_)
TextsUpTo(n) ==
    IF n = 0 THEN {<<>>}
    ELSE LET shorter == TextsUpTo(n - 1)
         IN shorter \cup {t \o piece : t \in shorter, piece \in Pieces}

Texts == TextsUpTo(MaxPieces)

\* the files offered to the file input of the page: two sections 'a' and
\* 'b', a verse header with one line 'a', and a blank file
Files ==
    {<<97>> \o Rep(Hyphen, DelimiterMin) \o <<98>>,
     VerseHeader \o <<Newline, 97>>,
     <<32>>}

\* the values typed into a settings input: '', 'abc', '0', '-5', '12'
Inputs ==
    {<<>>, <<97, 98, 99>>, <<48>>, <<45, 53>>, <<49, 50>>}

\* settings records the inputs can produce, used where the text varies
SettingsSamples ==
    {InitialSettings,
     [contentFontSize |-> 80, numberFontSize |-> 50,
      numberContentSpacing |-> 90, lineSpacing |-> 900]}

(***************************************************************************)
(* State of the component Home                                             *)
(***************************************************************************)
VARIABLES
    file,             \* useState file: <<>> is null, <<t>> a file with text t
    processing,       \* useState processing
    images,           \* useState images
    settings,         \* useState settings
    pc,               \* position of the latest processFile call: "idle" (none yet),
                      \* "text" (awaiting file.text()), "image" (awaiting
                      \* generateImage), "done" (returned), "failed" (returned
                      \* after the catch block)
    pendingText,      \* what the promise file.text() resolves with
    currentSettings,  \* the settings captured by the running processFile
    text,             \* processFile locals
    sections,
    i,
    generatedImages,
    wrappedLines,     \* locals of the latest generateImage call
    title,
    contentLines,
    alerted,          \* the alert of the catch block was shown by this call
    firstRender,      \* history: <<[text, settings, images, renderedAgain]>> of the
                      \* first finished batch, and whether processFile ran since
    edits,            \* number of settings edits so far
    running           \* number of processFile calls that have not returned yet

\* the signed-in user of every open tab and the Firestore collection 'users'
VARIABLES
    user,                \* useState user of each tab: <<>> is null, <<u>> uid u
    lastTrackedUserRef,  \* useRef of each tab: <<>> is null, <<u>> uid u
    calls,               \* the syncUserProfile calls started so far, each with
                         \* its uid, its position and the server time of its write
    users,               \* the documents users/{uid}: <<>> when there is none
    serverTime           \* what serverTimestamp() resolves to at the next write

uiVars ==
    <<file, processing, images, settings, pc, pendingText, currentSettings, text,
      sections, i, generatedImages, wrappedLines, title, contentLines, alerted,
      firstRender, edits, running>>

profileVars == <<user, lastTrackedUserRef, calls, users, serverTime>>

vars == <<uiVars, profileVars>>

batchVars == <<pendingText, currentSettings, text, sections, i, generatedImages>>
imageVars == <<wrappedLines, title, contentLines>>

\* number of tabs of the application that are open
MaxTabs == 2
\* number of syncUserProfile calls that are started
MaxCalls == 3

Tabs == 1..MaxTabs
Uids == {"u1", "u2"}

InitProfile ==
    /\ user = [tab \in Tabs |-> <<>>]
    /\ lastTrackedUserRef = [tab \in Tabs |-> <<>>]
    /\ calls = <<>>
    /\ users = [u \in Uids |-> <<>>]
    /\ serverTime = 1

InitCommon ==
    /\ InitProfile
    /\ processing = FALSE
    /\ images = <<>>
    /\ pc = "idle"
    /\ pendingText = <<>>
    /\ currentSettings = InitialSettings
    /\ text = <<>>
    /\ sections = <<>>
    /\ i = 0
    /\ generatedImages = <<>>
    /\ wrappedLines = <<>>
    /\ title = <<>>
    /\ contentLines = <<>>
    /\ alerted = FALSE
    /\ firstRender = <<>>
    /\ edits = 0
    /\ running = 0

Init ==
    /\ file = <<>>
    /\ settings = InitialSettings
    /\ InitCommon

\* a file was chosen and the settings were typed before the first click
InitRender ==
    /\ file \in {<<t>> : t \in Texts}
    /\ settings \in SettingsSamples
    /\ InitCommon

(***************************************************************************)
(* handleFileChange, lines 83-87                                           *)
(***************************************************************************)
HandleFileChange(t) ==
    /\ file' = <<t>>
    /\ UNCHANGED <<processing, images, settings, pc, batchVars, imageVars, alerted,
                   edits, running>>

(***************************************************************************)
(* onChange of one settings input, lines 297, 308, 319, 330                *)
(***************************************************************************)
EditSetting(field, value) ==
    /\ edits < MaxEdits
    /\ edits' = edits + 1
    /\ settings' = [settings EXCEPT ![field] = OrDefault(ParseInt(value), Fallback[field])]
    /\ UNCHANGED <<file, processing, images, pc, batchVars, imageVars, alerted,
                   running>>

(***************************************************************************)
(* processFile, lines 89-114                                               *)
(***************************************************************************)
\* lines 90-96, up to the first await: the call captures file and settings
\* of the render it was created in
ProcessFile ==
    /\ file # <<>>
    /\ processing' = TRUE
    /\ images' = <<>>
    /\ pendingText' = file[1]
    /\ currentSettings' = settings
    /\ pc' = "text"
    /\ text' = <<>>
    /\ sections' = <<>>
    /\ i' = 0
    /\ generatedImages' = <<>>
    /\ wrappedLines' = <<>>
    /\ title' = <<>>
    /\ contentLines' = <<>>
    /\ alerted' = FALSE
    /\ running' = running + 1
    /\ UNCHANGED <<file, settings, edits>>

\* variant: the generate button stays enabled while a batch is processed
ClickGenerateWhileProcessing ==
    /\ file # <<>>
    /\ ProcessFile
\* the generate button, lines 370-376: disabled={!file || processing}; a click
\* is handled after the state updates of the click before it were rendered
ClickGenerate ==
    /\ file # <<>>
    /\ ~processing
    /\ ProcessFile

\* the regenerate button, lines 379 and 386-392: shown when images.length > 0,
\* disabled={processing}
ClickRegenerate ==
    /\ Len(images) > 0
    /\ ~processing
    /\ ProcessFile

\* variant: the partial list is published when a section fails
CatchErrorPublishing ==
    /\ alerted' = TRUE
    /\ processing' = FALSE
    /\ images' = generatedImages
    /\ pc' = "failed"
    /\ running' = running - 1
    /\ UNCHANGED <<file, settings, batchVars, imageVars, edits>>
\* lines 108-113: catch (alert) and finally
CatchError ==
    /\ alerted' = TRUE
    /\ processing' = FALSE
    /\ pc' = "failed"
    /\ running' = running - 1
    /\ UNCHANGED <<file, images, settings, batchVars, imageVars, edits>>

\* lines 107 and 111-113: setImages(generatedImages), then finally
Finish(result) ==
    /\ images' = result
    /\ processing' = FALSE
    /\ pc' = "done"
    /\ running' = running - 1

\* lines 96-101: file.text() resolved; the sections are computed and the loop
\* is entered
TextResolved ==
    /\ pc = "text"
    /\ text' = pendingText
    /\ sections' = SectionsOf(pendingText)
    /\ generatedImages' = <<>>
    /\ i' = 0
    /\ IF sections' = <<>>
       THEN Finish(<<>>)
       ELSE /\ pc' = "image"
            /\ UNCHANGED <<images, processing, running>>
    /\ UNCHANGED <<file, settings, pendingText, currentSettings, imageVars, alerted,
                   edits>>

\* file.text() rejected
TextRejected ==
    /\ pc = "text"
    /\ CatchError

\* variant: the settings of the latest render are read
SettingsForImageLive == settings
\* line 103: the settings argument of generateImage
SettingsForImage == currentSettings

\* lines 102-105: generateImage(sections[i], i + 1, settings) resolved and its
\* data URL is pushed; the loop goes on or ends
ImageResolved ==
    /\ pc = "image"
    /\ LET r == GenerateImage(sections[i + 1], SettingsForImage)
       IN /\ wrappedLines' = r.wrappedLines
          /\ title' = r.title
          /\ contentLines' = r.contentLines
          /\ generatedImages' = Append(generatedImages, r.image)
    /\ i' = i + 1
    /\ IF i' < Len(sections)
       THEN /\ pc' = "image"
            /\ UNCHANGED <<images, processing, running>>
       ELSE Finish(generatedImages')
    /\ UNCHANGED <<file, settings, pendingText, currentSettings, text, sections,
                   alerted, edits>>

\* generateImage rejected (no 2d context, toDataURL throws)
ImageRejected ==
    /\ pc = "image"
    /\ CatchError

(***************************************************************************)
(* syncUserProfile, src/lib/userProfile.ts, and the effect that calls it   *)
(***************************************************************************)
\* lines 10-21: the call runs up to the await of getDoc
SyncUserProfile(u) ==
    /\ Len(calls) < MaxCalls
    /\ calls' = Append(calls, [uid |-> u, pc |-> "getDoc", at |-> 0])

\* onAuthStateChanged delivers nextUser (<<>> for null) to a tab, setUser
\* stores it and the effect of lines 35-50 runs
AuthStateChanged(tab, nextUser) ==
    /\ ~(user[tab] = <<>> /\ nextUser = <<>>)
    /\ user' = [user EXCEPT ![tab] = nextUser]
    /\ IF nextUser = <<>>
       THEN /\ lastTrackedUserRef' = [lastTrackedUserRef EXCEPT ![tab] = <<>>]
            /\ UNCHANGED calls
       ELSE IF lastTrackedUserRef[tab] = nextUser
            THEN UNCHANGED <<lastTrackedUserRef, calls>>
            ELSE /\ lastTrackedUserRef' = [lastTrackedUserRef EXCEPT ![tab] = nextUser]
                 /\ SyncUserProfile(nextUser[1])
    /\ UNCHANGED <<users, serverTime, uiVars>>

\* lines 21-23: getDoc resolved with the document as it is on the server now
GetDocResolved(c) ==
    /\ calls[c].pc = "getDoc"
    /\ calls' = [calls EXCEPT ![c].pc = IF users[calls[c].uid] = <<>>
                                         THEN "create" ELSE "merge"]
    /\ UNCHANGED <<user, lastTrackedUserRef, users, serverTime, uiVars>>

\* lines 24-29: setDoc without merge replaces the document
CreateProfile(old, now) ==
    <<[createdAt |-> now, lastLogin |-> now, loginCount |-> 1]>>

\* lines 33-41: setDoc with merge; increment(1) adds on the server, to 0 when
\* the field is missing; createdAt 0 stands for a document without the field
MergeLogin(old, now) ==
    IF old = <<>>
    THEN <<[createdAt |-> 0, lastLogin |-> now, loginCount |-> 1]>>
    ELSE <<[old[1] EXCEPT !.lastLogin = now, !.loginCount = @ + 1]>>

\* the server applied the setDoc of call c and the call returned
SetDocResolved(c) ==
    /\ calls[c].pc \in {"create", "merge"}
    /\ users' = [users EXCEPT ![calls[c].uid] =
                    IF calls[c].pc = "create"
                    THEN CreateProfile(@, serverTime)
                    ELSE MergeLogin(@, serverTime)]
    /\ serverTime' = serverTime + 1
    /\ calls' = [calls EXCEPT ![c].pc = "done", ![c].at = serverTime]
    /\ UNCHANGED <<user, lastTrackedUserRef, uiVars>>

\* lines 42-49: getDoc or setDoc rejected; permission-denied is swallowed, any
\* other error is rethrown to the catch of the effect
Rejected(c, denied) ==
    /\ calls[c].pc \in {"getDoc", "create", "merge"}
    /\ calls' = [calls EXCEPT ![c].pc = IF denied THEN "skipped" ELSE "failed"]
    /\ UNCHANGED <<user, lastTrackedUserRef, users, serverTime, uiVars>>

(***************************************************************************)
(* History of the first finished batch, kept beside the program state      *)
(***************************************************************************)
RecordRender ==
    firstRender' =
        IF firstRender = <<>>
        THEN IF pc # "done" /\ pc' = "done"
             THEN <<[text |-> text', settings |-> currentSettings',
                     images |-> images', renderedAgain |-> FALSE]>>
             ELSE <<>>
        ELSE IF pc' = "text" /\ pc # "text"
             THEN <<[firstRender[1] EXCEPT !.renderedAgain = TRUE]>>
             ELSE firstRender

Next ==
    \/ (\E t \in Files : HandleFileChange(t)) /\ RecordRender /\ UNCHANGED profileVars
    \/ (\E field \in Fields, value \in Inputs : EditSetting(field, value))
          /\ RecordRender /\ UNCHANGED profileVars
    \/ ClickGenerate /\ RecordRender /\ UNCHANGED profileVars
    \/ ClickRegenerate /\ RecordRender /\ UNCHANGED profileVars
    \/ TextResolved /\ RecordRender /\ UNCHANGED profileVars
    \/ TextRejected /\ RecordRender /\ UNCHANGED profileVars
    \/ ImageResolved /\ RecordRender /\ UNCHANGED profileVars
    \/ ImageRejected /\ RecordRender /\ UNCHANGED profileVars

Spec == Init /\ [][Next]_vars

\* one file, fixed settings, a rendering backend that does not fail; no
\* history is kept
NextRender ==
    \/ ClickGenerate /\ UNCHANGED <<firstRender, profileVars>>
    \/ ClickRegenerate /\ UNCHANGED <<firstRender, profileVars>>
    \/ TextResolved /\ UNCHANGED <<firstRender, profileVars>>
    \/ ImageResolved /\ UNCHANGED <<firstRender, profileVars>>

SpecRender == InitRender /\ [][NextRender]_vars

\* the tabs sign in and out and their syncUserProfile calls interleave
NextProfile ==
    \/ \E tab \in Tabs, nextUser \in {<<>>} \cup {<<u>> : u \in Uids} :
          AuthStateChanged(tab, nextUser)
    \/ \E c \in 1..Len(calls) : GetDocResolved(c)
    \/ \E c \in 1..Len(calls) : SetDocResolved(c)
    \/ \E c \in 1..Len(calls), denied \in BOOLEAN : Rejected(c, denied)

SpecProfile == Init /\ [][NextProfile]_vars

(***************************************************************************)
(* Definitions used to state the properties                                *)
(***************************************************************************)
\* number of hyphens in a row in t from position p on
RunAt(t, p) ==
    CHOOSE n \in 0..(Len(t) - p + 1) :
        /\ \A k \in 0..(n - 1) : t[p + k] = Hyphen
        /\ (p + n > Len(t) \/ t[p + n] # Hyphen)

\* first positions of the maximal runs of at least 20 hyphens
DelimiterStarts(t) ==
    {p \in 1..Len(t) :
        /\ t[p] = Hyphen
        /\ (p = 1 \/ t[p - 1] # Hyphen)
        /\ RunAt(t, p) >= 20}

SegmentStarts(t) == {1} \cup {p + RunAt(t, p) : p \in DelimiterStarts(t)}

\* the segment that starts at a: up to the next delimiter run or the end
SegmentAt(t, a) ==
    LET later == {p \in DelimiterStarts(t) : p >= a}
        stop == IF later = {} THEN Len(t) + 1
                ELSE CHOOSE p \in later : \A q \in later : p <= q
    IN SubSeq(t, a, stop - 1)

IsBlankText(str) == \A k \in 1..Len(str) : IsWhiteSpace(str[k])

NonBlankStarts(t) == {a \in SegmentStarts(t) : ~IsBlankText(SegmentAt(t, a))}

\* the non-blank segments of t between delimiter runs, in text order
NonBlankSegments(t) ==
    LET starts == NonBlankStarts(t)
    IN [k \in 1..Cardinality(starts) |->
          SegmentAt(t, CHOOSE a \in starts : Cardinality({b \in starts : b <= a}) = k)]

CountHyphens(str) == Cardinality({k \in 1..Len(str) : str[k] = Hyphen})

RECURSIVE Flatten(_)
Flatten(seqs) == IF seqs = <<>> THEN <<>> ELSE Head(seqs) \o Flatten(Tail(seqs))

\* hyphens of t in the runs that start at the positions S
RECURSIVE HyphensInRuns(_, _)
HyphensInRuns(t, S) ==
    IF S = {} THEN 0
    ELSE LET p == CHOOSE q \in S : TRUE IN RunAt(t, p) + HyphensInRuns(t, S \ {p})

\* a processFile call has run to its end without an error
BatchFinished == pc = "done"

\* C1: when processFile ends, images holds exactly one image per non-blank
\* segment between delimiter runs, the k-th image being the image of the k-th
\* such segment; with no non-blank segment it is empty and no error is shown.
C1_OneImagePerSegment ==
    BatchFinished =>
        LET segs == NonBlankSegments(text)
        IN /\ DOMAIN images = 1..Len(segs)
           /\ \A k \in 1..Len(segs) :
                 images[k] = GenerateImage(segs[k], currentSettings).image
           /\ ~processing
           /\ (Len(segs) = 0 => images = <<>> /\ ~alerted)

\* a finished batch of two different images
C1_Witness ==
    /\ BatchFinished
    /\ Len(images) = 2
    /\ images[1] # images[2]

\* C2: every wrapped line of a generateImage call has at most 25 code units.
C2_WrappedLineAtMost25 ==
    \A k \in 1..Len(wrappedLines) : Len(wrappedLines[k]) <= 25

\* a line was cut: a full wrapped line followed by its remainder
C2_Witness ==
    /\ Len(wrappedLines) >= 2
    /\ Len(wrappedLines[1]) = 25
    /\ Len(wrappedLines[2]) = 25

\* C3: the sections are the non-blank pieces of the text between the runs of
\* 20 or more hyphens: no hyphen of such a run is in a section, and every
\* hyphen of a shorter run is still in its section.
C3_DelimiterBoundary ==
    /\ sections = NonBlankSegments(text)
    /\ \A k \in 1..Len(sections) :
          \A p \in 1..Len(sections[k]) :
             (sections[k][p] = Hyphen /\ (p = 1 \/ sections[k][p - 1] # Hyphen))
                => RunAt(sections[k], p) < 20
    /\ CountHyphens(Flatten(sections))
          = CountHyphens(text) - HyphensInRuns(text, DelimiterStarts(text))

\* a text with a run of 19 hyphens kept in a section and a delimiter run removed
C3_Witness ==
    /\ pc = "image"
    /\ DelimiterStarts(text) # {}
    /\ \E k \in 1..Len(sections) :
          \E p \in 1..Len(sections[k]) : RunAt(sections[k], p) = 19

\* C4: a batch is all or nothing.  While a batch runs and after it failed the
\* images list is empty, a failure shows the alert and ends the batch, and a
\* non-empty list is the complete list of a batch that ended without error.
C4_AllOrNothing ==
    /\ processing => images = <<>>
    /\ pc = "failed" => (images = <<>> /\ alerted /\ ~processing)
    /\ images # <<>> =>
          (pc = "done" /\ ~alerted /\ images = generatedImages
              /\ Len(images) = Len(sections))

\* a batch failed after its first image had been generated
C4_Witness ==
    /\ pc = "failed"
    /\ alerted
    /\ Len(generatedImages) >= 1
    /\ Len(generatedImages) < Len(sections)
    /\ images = <<>>

\* the title the classifier is expected to give for a matching line: the line
\* without the header '창세기 1장' and without the suffix, trimmed
BareLabel(line) ==
    Trim(ReplaceFirstWithEmpty(ReplaceFirstWithEmpty(line, HeaderIncludes), Suffix))

\* C5: after a generateImage call the title is the bare label of a wrapped
\* line that contains the header and the suffix; when no wrapped line
\* contains both, the title is empty and no title is drawn.
C5_TitleIsBareLabel ==
    i >= 1 =>
        LET matches == {k \in 1..Len(wrappedLines) :
                           /\ Includes(wrappedLines[k], HeaderIncludes)
                           /\ Includes(wrappedLines[k], Suffix)}
        IN IF matches = {}
           THEN /\ title = <<>>
                /\ Len(generatedImages[i]) = (1 + FillRepeats) * Len(contentLines)
           ELSE \E k \in matches : title = BareLabel(wrappedLines[k])

\* the value of a string of decimal digits
IsUnsignedInteger(str) == str # <<>> /\ \A k \in 1..Len(str) : IsDigit(str[k])
IsNonNumeric(str) == \A k \in 1..Len(str) : ~IsDigit(str[k])
ValidFor(field, str) ==
    /\ IsUnsignedInteger(str)
    /\ \/ DigitsValue(str, 1, 0) > 0
       \/ field = "numberContentSpacing" /\ DigitsValue(str, 1, 0) = 0

\* C6: an edit of one field stores the entered integer when it is valid for
\* the field (positive, or zero for numberContentSpacing), stores the default
\* 62, 41, 55 or 70 of the field when the input is empty or not numeric, and
\* leaves the other three fields as they were.
C6_EditStoresValueOrDefault ==
    [][\A field \in Fields, value \in Inputs :
          EditSetting(field, value) =>
             /\ ValidFor(field, value) => settings'[field] = DigitsValue(value, 1, 0)
             /\ IsNonNumeric(value) =>
                   settings'[field] =
                      [contentFontSize |-> 62, numberFontSize |-> 41,
                       numberContentSpacing |-> 55, lineSpacing |-> 70][field]
             /\ \A other \in Fields \ {field} : settings'[other] = settings[other]
             /\ pc' = pc]_vars

\* C7: the settings given to generateImage are in the RenderSettings domain.
C7_SettingsInDomain ==
    pc \in {"text", "image", "done", "failed"} =>
        /\ currentSettings.contentFontSize > 0
        /\ currentSettings.numberFontSize > 0
        /\ currentSettings.lineSpacing > 0
        /\ currentSettings.numberContentSpacing >= 0

\* C8: a finished batch on the text and the settings of the first finished
\* batch has the images of the first finished batch, whatever was rendered,
\* selected or edited in between.
C8_Deterministic ==
    (/\ firstRender # <<>>
     /\ pc = "done"
     /\ text = firstRender[1].text
     /\ currentSettings = firstRender[1].settings)
        => images = firstRender[1].images

\* a later batch on the same text and settings, with images
C8_Witness ==
    /\ firstRender # <<>>
    /\ firstRender[1].renderedAgain
    /\ pc = "done"
    /\ text = firstRender[1].text
    /\ currentSettings = firstRender[1].settings
    /\ images # <<>>
    /\ images = firstRender[1].images

\* C9: the image of a generateImage call is the title, when it is not empty,
\* stroked once and filled five times at (190, 200) in numberFontSize, then
\* content line n (from 0) stroked once and filled five times at
\* (190, 200 + numberContentSpacing + n * lineSpacing) in contentFontSize,
\* with or without a title and also below the canvas height.
C9_Layout ==
    i >= 1 =>
        LET img == generatedImages[i]
            per == 6
            off == IF title # <<>> THEN per ELSE 0
            Kind(j) == IF j = 1 THEN "strokeText" ELSE "fillText"
        IN /\ Len(img) = off + per * Len(contentLines)
           /\ \A j \in 1..off :
                 img[j] = [op |-> Kind(j), text |-> title, x |-> 190, y |-> 200,
                           font |-> currentSettings.numberFontSize]
           /\ \A n \in 0..(Len(contentLines) - 1) :
                 \A j \in 1..per :
                    img[off + per * n + j] =
                       [op |-> Kind(j), text |-> contentLines[n + 1], x |-> 190,
                        y |-> 200 + currentSettings.numberContentSpacing
                                 + n * currentSettings.lineSpacing,
                        font |-> currentSettings.contentFontSize]

\* an image with a title and a second content line below the canvas (1080)
C9_Witness ==
    /\ i >= 1
    /\ title # <<>>
    /\ Len(contentLines) >= 2
    /\ \E j \in 1..Len(generatedImages[i]) : generatedImages[i][j].y > 1080

\* C10: per logical line of the section of a generateImage call: a blank
\* line adds no wrapped line; the wrapped lines of a non-blank line,
\* concatenated, are the line, all but the last have 25 code units and the
\* last has 1 to 25; wrappedLines is these in order.
C10_GreedyLossless ==
    i >= 1 =>
        LET lines == SplitLinesFrom(sections[i], 1)
        IN /\ \A n \in 1..Len(lines) :
                 LET w == WrapLine(lines[n])
                 IN IF IsBlankText(lines[n]) THEN w = <<>>
                    ELSE /\ Len(w) >= 1
                         /\ Flatten(w) = lines[n]
                         /\ \A k \in 1..(Len(w) - 1) : Len(w[k]) = 25
                         /\ Len(w[Len(w)]) \in 1..25
           /\ wrappedLines = Flatten([n \in 1..Len(lines) |-> WrapLine(lines[n])])

\* a line of 26 code units gave wrapped lines of 25 and 1
C10_Witness ==
    /\ i >= 1
    /\ Len(wrappedLines) = 2
    /\ Len(wrappedLines[1]) = 25
    /\ Len(wrappedLines[2]) = 1
    /\ \E ln \in 1..Len(SplitLinesFrom(sections[i], 1)) :
          Len(SplitLinesFrom(sections[i], 1)[ln]) = 26

\* does the line hold the header '창세기 1장' and the suffix?
MatchesTitlePattern(line) ==
    /\ \E p \in 1..Len(line) : OccursAt(line, HeaderIncludes, p)
    /\ \E p \in 1..Len(line) : OccursAt(line, Suffix, p)

\* positions of the wrapped lines that are no title line and not blank
ContentPositions ==
    {k \in 1..Len(wrappedLines) :
        ~MatchesTitlePattern(wrappedLines[k]) /\ ~IsBlankText(wrappedLines[k])}

\* C11: after a generateImage call contentLines is, in the order of the
\* wrapped lines, the trimmed text of every wrapped line that is no title line
\* and not blank, each once, and nothing else.
C11_ContentLinesInOrder ==
    i >= 1 =>
        /\ Len(contentLines) = Cardinality(ContentPositions)
        /\ \A k \in ContentPositions :
              contentLines[Cardinality({j \in ContentPositions : j <= k})]
                 = Trim(wrappedLines[k])

\* two different content lines in order, next to a wrapped line that is left
\* out (a title line or a blank line)
C11_Witness ==
    /\ i >= 1
    /\ Len(contentLines) >= 2
    /\ contentLines[1] # contentLines[2]
    /\ Len(wrappedLines) > Len(contentLines)

\* C12: when several wrapped lines match the title pattern, the title is the
\* one derived from the last of them and no content line matches the pattern.
C12_LastTitleWins ==
    LET matches == {k \in 1..Len(wrappedLines) : MatchesTitlePattern(wrappedLines[k])}
    IN (i >= 1 /\ Cardinality(matches) >= 2) =>
          /\ title = TitleOf(wrappedLines[CHOOSE k \in matches :
                                              \A j \in matches : j <= k])
          /\ \A n \in 1..Len(contentLines) : ~MatchesTitlePattern(contentLines[n])
          /\ Len(contentLines) = Cardinality(ContentPositions)
          /\ (title # <<>> =>
                generatedImages[i][1].text = title)

\* two matching lines that give different titles
C12_Witness ==
    /\ i >= 1
    /\ Len(wrappedLines) = 2
    /\ MatchesTitlePattern(wrappedLines[1])
    /\ MatchesTitlePattern(wrappedLines[2])
    /\ TitleOf(wrappedLines[1]) # TitleOf(wrappedLines[2])
    /\ title = TitleOf(wrappedLines[2])

\* C13: the settings of a batch are the ones of the click that started it,
\* they stay the same until the next batch starts, whatever is edited
\* meanwhile, every image made so far is the painting of its section under
\* them, and a finished batch publishes exactly those images.
C13_OneSettingsSnapshot ==
    [][/\ (running' > running => currentSettings' = settings)
       /\ (running' <= running => currentSettings' = currentSettings)
       /\ Len(generatedImages') <= Len(sections')
       /\ <<generatedImages, sections, currentSettings>>'
             # <<generatedImages, sections, currentSettings>>
          => \A k \in 1..Len(generatedImages') :
                generatedImages'[k]
                   = GenerateImage(sections'[k], currentSettings').image
       /\ (pc' = "done" => images' = generatedImages')]_vars

\* the settings were edited after the first image of a batch was painted and
\* before its last one, and the edit would change that image
C13_Witness ==
    /\ pc = "image"
    /\ i >= 1
    /\ i < Len(sections)
    /\ settings # currentSettings
    /\ GenerateImage(sections[1], settings).image # generatedImages[1]

\* C14: at most one processFile call is in flight, and it is in flight exactly
\* while the processing flag is set; a call starts only when none is running
\* and the flag is reset.
C14_OneBatchInFlight ==
    /\ running \in {0, 1}
    /\ processing <=> running = 1
    /\ processing <=> pc \in {"text", "image"}

\* a second batch is in flight after the first one has finished
C14_Witness ==
    /\ firstRender # <<>>
    /\ firstRender[1].renderedAgain
    /\ running = 1
    /\ pc = "image"
    /\ i >= 1

\* the syncUserProfile calls for uid u
CallsFor(u) == {c \in 1..Len(calls) : calls[c].uid = u}

\* C15: when every syncUserProfile call for a uid has written and returned,
\* the loginCount of the stored profile is the number of those calls and its
\* createdAt is the server time of the earliest of their writes.
C15_LoginCountIsNumberOfCalls ==
    \A u \in Uids :
        (/\ CallsFor(u) # {}
         /\ \A c \in CallsFor(u) : calls[c].pc = "done")
        => /\ users[u] # <<>>
           /\ users[u][1].loginCount = Cardinality(CallsFor(u))
           /\ \E c \in CallsFor(u) :
                 /\ users[u][1].createdAt = calls[c].at
                 /\ \A d \in CallsFor(u) : calls[c].at <= calls[d].at

====
